---- MODULE Spec2Model ----
(***************************************************************************)
(* agent-reach: discovery registry with a Hello/Proof handshake, bearer    *)
(* sessions and a DID -> endpoint registry (src/src/handlers.rs,           *)
(* src/src/types.rs).                                                      *)
(*                                                                         *)
(* Every HTTP request is a task.  A handler is split where it releases one *)
(* store lock and later takes another one or reads the clock again, so a   *)
(* handler is one or two atomic steps, and other tasks and the clock can   *)
(* move between the two.                                                   *)
(*                                                                         *)
(* Registry (src/registry.rs) is not among the sources: RegistryRegister,  *)
(* RegistryLookup and RegistryDeregister follow section 4.1 of the spec.   *)
(* The handshake library (Verifier, hash_challenge) and the DID parser are *)
(* external crates, modelled by what the handlers rely on.                 *)
(*                                                                         *)
(* i64/u64 values are modelled at width IntBits instead of 64 (TLC has     *)
(* 32-bit integers); the u64 -> i64 cast and the addition wrap at that     *)
(* width, and an overflowing addition can also panic (overflow checks).    *)
(*                                                                         *)
(* Specifications:                                                         *)
(*   Spec         the service from its start, MaxReqs concurrent tasks,    *)
(*                every hello, proof, header and path;                     *)
(*   SpecSession  the service after one handshake, one task, callers that  *)
(*                complete their handshakes;                               *)
(*   SpecTtl      the registration endpoints after one handshake, one      *)
(*                task, every ttl of the request type;                     *)
(*   SpecConcurrent  the registration endpoints after one handshake,       *)
(*                MaxReqs concurrent tasks working on one DID;             *)
(*   SpecMcp      the service from its start with the tool adapter         *)
(*                (src/mcp/src/main.rs) as a client, one task.             *)
(* Variables marked (history) record what happened and are never read by   *)
(* an action's guard or effect on the program state.                       *)
(***************************************************************************)
EXTENDS Integers, FiniteSets, Sequences, TLC

\* ------------------------------------------------------------------ bounds
MaxReqs == 2
MaxChallenges == 2
MaxSessions == 2
MaxTicks == 2
MaxOps == 3
MaxOpsSession == 4
MaxOpsTtl == 2
MaxOpsConcurrent == 3
MaxOpsMcp == 5
IntBits == 14

\* --------------------------------------------------------- program constants
SESSION_TTL == 300
DEFAULT_TTL == 3600

\* ------------------------------------------------------------ integer widths
TwoW == 2 ^ IntBits
Half == 2 ^ (IntBits - 1)
I64_MAX == Half - 1
I64_MIN == 0 - Half

\* `req.ttl as i64`: two's-complement reinterpretation of an unsigned value
AsI64(u) == IF u >= Half THEN u - TwoW ELSE u

\* wrapping i64 addition (overflow-checks off)
WrapI64(x) == ((x + Half) % TwoW) - Half

\* the addition leaves the i64 range (overflow-checks on: panic)
Overflows(x) == x < I64_MIN \/ x > I64_MAX

\* ------------------------------------------------------------------- inputs
DidA == "did:key:zA"
DidB == "did:key:zB"
ValidDids == {DidA, DidB}
DidStrings == ValidDids \cup {"not-a-did"}
Keys == {"keyA", "keyB"}
Endpoints == {"https://a.example/inbox", "wss://b.example:8080"}
Absent == "<absent>"
Omitted == 0 - 1
NoToken == 0 - 1
TtlValues == {0, 1, I64_MAX, Half}
Slots == 1 .. MaxReqs
Tokens == 0 .. MaxSessions
Nonces == 1 .. MaxChallenges
\* the clock is observed after 1 s, then 300 s later, then 1 s later, ...
TickStep(i) == IF i % 2 = 1 THEN 1 ELSE SESSION_TTL

\* agent_id::Did::from_str: only did:key:... strings parse
ParseDid(s) == s \in ValidDids

\* the public key a did:key DID encodes
KeyOf(d) == IF d = DidA THEN "keyA" ELSE "keyB"

\* hash_challenge: digest of the canonical serialization of every field
HashChallenge(c) == <<"sha256", c.nonce, c.issuer>>

Hashes == {HashChallenge([nonce |-> n, issuer |-> d]) : n \in Nonces, d \in ValidDids}

\* slip: the challenge is derived from the DID alone
HandleHelloFixedNonce(hello, nonce) == [nonce |-> 1, issuer |-> hello.did]

\* Verifier::handle_hello: a challenge with a fresh nonce for the hello's DID
HandleHello(hello, nonce) == [nonce |-> nonce, issuer |-> hello.did]

\* Verifier::new(did).verify_proof(&proof, &challenge): the signature must be
\* by the responder DID's key and cover the consumed challenge.  Whether the
\* verifier (external crate) also requires the responder DID to be the DID
\* the challenge was issued to is not fixed by the handler: binds is either.
VerifyProof(proof, challenge, binds) ==
    /\ proof.signer = KeyOf(proof.responder_did)
    /\ proof.signed_hash = HashChallenge(challenge)
    /\ binds => proof.responder_did = challenge.issuer

\* urlencoding::decode of the path segment
UrlDecode(seg) ==
    CASE seg = "did%3Akey%3AzA" -> DidA
      [] seg = "did:key:zB" -> DidB
      [] seg = "did%3Akey%3AzNobody" -> "did:key:zNobody"
      [] OTHER -> Absent

PathSegs == {"did%3Akey%3AzA", "did:key:zB", "did%3Akey%3AzNobody", "%FF"}

Hellos == [did : DidStrings, acceptable : BOOLEAN]
\* a signature over bytes that are no challenge of this service
GarbageHash == <<"sha256", 0, Absent>>

Proofs == {p \in [challenge_hash : Hashes, responder_did : DidStrings,
                  signer : Keys, signed_hash : Hashes \cup {GarbageHash}] :
              /\ p.signed_hash \in {p.challenge_hash, GarbageHash}
              /\ p.signed_hash = GarbageHash => p.signer = KeyOf(p.responder_did)
              /\ ~ParseDid(p.responder_did) =>
                     p.signer = "keyA" /\ p.signed_hash = p.challenge_hash}
Headers == {[prefix |-> Absent, rest |-> NoToken], [prefix |-> "Basic ", rest |-> 1]}
             \cup [prefix : {"Bearer "}, rest : Tokens]
\* a full body, or the body without did and signature
Bodies == {b \in [did : {Absent, DidB}, signature : {Absent, "sig"},
                  endpoint : Endpoints, ttl : TtlValues \cup {Omitted}] :
              (b.did = Absent) <=> (b.signature = Absent)}

\* -------------------------------------------------------------------- state
VARIABLES
    now,                 \* chrono::Utc::now().timestamp()
    ticks,               \* number of clock advances so far
    pending_challenges,  \* HandshakeState.pending_challenges
    sessions,            \* HandshakeState.sessions
    registry,            \* AppState.registry
    next_nonce,          \* randomness consumed by challenges
    next_uuid,           \* randomness consumed by uuid::Uuid::new_v4
    req,                 \* per task: position and locals of a request in flight
    resp,                \* the response sent last
    budget,              \* number of requests other than lookups still to be received
    last_reg,            \* per DID: the register that wrote its entry, and what it replaced (history)
    taken,               \* per challenge hash: requests that found it (history)
    minted,              \* per session id: signer and challenge of its proof (history)
    expired_seen,        \* session ids answered with SessionExpired (history)
    mcp                  \* the tool adapter: its cached session and the call in progress

vars == <<now, ticks, pending_challenges, sessions, registry, next_nonce,
          next_uuid, req, resp, budget, last_reg, taken, minted, expired_seen,
          mcp>>

Idle == [pc |-> "idle"]

\* a new request is served by the first free task
FreeSlot(r) == req[r] = Idle /\ \A q \in Slots : q < r => req[q] # Idle

Remove(f, k) == [x \in DOMAIN f \ {k} |-> f[x]]
Insert(f, k, v) == [x \in DOMAIN f \cup {k} |-> IF x = k THEN v ELSE f[x]]
Empty == [x \in {} |-> 0]
\* the entry stored for d, if any
EntrySet(store, d) == IF d \in DOMAIN store THEN {store[d]} ELSE {}

\* ReachMcpServer::new: session: RwLock::new(None); no tool call in progress
NoRequest == [method |-> "none", path |-> "none"]
McpIdle(session, outcome) ==
    [pc |-> "idle", tool |-> "none", session |-> session, cached |-> FALSE,
     out |-> NoRequest, outcome |-> outcome]

\* HandshakeState::new, Registry::new
Init ==
    /\ now = 0
    /\ ticks = 0
    /\ pending_challenges = Empty
    /\ sessions = Empty
    /\ registry = Empty
    /\ next_nonce = 1
    /\ next_uuid = 1
    /\ req = [r \in Slots |-> Idle]
    /\ resp = [op |-> "none"]
    /\ budget = MaxOps
    /\ last_reg = Empty
    /\ taken = [h \in Hashes |-> 0]
    /\ minted = Empty
    /\ expired_seen = {}
    /\ mcp = McpIdle(NoToken, "none")

\* the wall clock advances
Tick ==
    /\ ticks < MaxTicks
    /\ now' = now + TickStep(ticks + 1)
    /\ ticks' = ticks + 1
    /\ UNCHANGED <<pending_challenges, sessions, registry, next_nonce, next_uuid,
                   req, resp, budget, last_reg, taken, minted, expired_seen, mcp>>

\* ------------------------------------------------------------- POST /hello
\* slip: the DID of the hello is used without being parsed
HelloResultUnparsed(hello) ==
    IF ~hello.acceptable THEN "HandshakeError" ELSE "ok"

HelloResult(hello) ==
    IF ~ParseDid(hello.did) THEN "InvalidDid"
    ELSE IF ~hello.acceptable THEN "HandshakeError"
    ELSE "ok"

Hello(hello) ==
    /\ budget > 0
    /\ budget' = budget - 1
    /\ LET result == HelloResult(hello)
           challenge == HandleHello(hello, next_nonce)
       IN IF result = "ok"
          THEN /\ next_nonce <= MaxChallenges
               /\ next_nonce' = next_nonce + 1
               /\ pending_challenges' =
                      Insert(pending_challenges, HashChallenge(challenge), challenge)
               /\ resp' = [op |-> "hello", result |-> "ok", did |-> hello.did,
                           hash |-> HashChallenge(challenge)]
          ELSE /\ resp' = [op |-> "hello", result |-> result, did |-> hello.did]
               /\ UNCHANGED <<next_nonce, pending_challenges>>
    /\ UNCHANGED <<now, ticks, sessions, registry, next_uuid, req, last_reg,
                   taken, minted, expired_seen, mcp>>

\* ------------------------------------------------------------- POST /proof
\* slip: the challenge is read with get() and left in the store
TakeChallengeKeep(store, hash) == store

\* pending_challenges.write().remove(&proof.challenge_hash)
TakeChallenge(store, hash) == Remove(store, hash)

ProofTake(r, proof) ==
    /\ FreeSlot(r)
    /\ budget > 0
    /\ budget' = budget - 1
    /\ IF proof.challenge_hash \in DOMAIN pending_challenges
       THEN /\ next_uuid + Cardinality({q \in Slots : req[q].pc = "proof_verify"})
                   <= MaxSessions
            /\ pending_challenges' =
                   TakeChallenge(pending_challenges, proof.challenge_hash)
            /\ taken' = [taken EXCEPT ![proof.challenge_hash] = @ + 1]
            /\ req' = [req EXCEPT ![r] =
                        [pc |-> "proof_verify", proof |-> proof,
                         challenge |-> pending_challenges[proof.challenge_hash]]]
            /\ UNCHANGED resp
       ELSE /\ resp' = [op |-> "proof", result |-> "InvalidChallenge",
                        hash |-> proof.challenge_hash]
            /\ UNCHANGED <<pending_challenges, taken, req>>
    /\ UNCHANGED <<now, ticks, sessions, registry, next_nonce, next_uuid,
                   last_reg, minted, expired_seen, mcp>>

\* slip: the result of verify_proof is dropped
ProofResultUnverified(proof, challenge, binds) ==
    IF ~ParseDid(proof.responder_did) THEN "InvalidDid" ELSE "ok"

ProofResult(proof, challenge, binds) ==
    IF ~ParseDid(proof.responder_did) THEN "InvalidDid"
    ELSE IF ~VerifyProof(proof, challenge, binds) THEN "InvalidSignature"
    ELSE "ok"

\* AuthenticatedSession { did: proof.responder_did, created_at: now }
NewSession(proof, t) == [did |-> proof.responder_did, created_at |-> t]

\* slip: a failed proof puts the challenge back for another attempt
PendingAfterProofRestore(store, challenge, result) ==
    IF result = "ok" THEN store
    ELSE Insert(store, HashChallenge(challenge), challenge)

\* the error paths return with `?`: the removed challenge is dropped
PendingAfterProof(store, challenge, result) == store

ProofFinish(r) ==
    /\ req[r].pc = "proof_verify"
    /\ \E binds \in BOOLEAN :
         LET proof == req[r].proof
             result == ProofResult(proof, req[r].challenge, binds)
         IN /\ IF result = "ok"
               THEN /\ sessions' = Insert(sessions, next_uuid, NewSession(proof, now))
                    /\ next_uuid' = next_uuid + 1
                    /\ minted' = Insert(minted, next_uuid,
                                        [signer |-> proof.signer,
                                         signed_hash |-> proof.signed_hash,
                                         hash |-> HashChallenge(req[r].challenge)])
                    /\ resp' = [op |-> "proof", result |-> "ok",
                                hash |-> proof.challenge_hash,
                                session_id |-> next_uuid]
               ELSE /\ resp' = [op |-> "proof", result |-> result,
                                hash |-> proof.challenge_hash]
                    /\ UNCHANGED <<sessions, next_uuid, minted>>
            /\ pending_challenges' =
                   PendingAfterProof(pending_challenges, req[r].challenge, result)
    /\ req' = [req EXCEPT ![r] = Idle]
    /\ UNCHANGED <<now, ticks, registry, next_nonce, budget,
                   last_reg, taken, expired_seen, mcp>>

\* --------------------------------------------- session-gated registration
\* headers.get("authorization") ... strip_prefix("Bearer ")
BearerToken(auth) == IF auth.prefix = "Bearer " THEN auth.rest ELSE NoToken

\* if now - session.created_at > 300 { return Err(SessionExpired) }
SessionTooOld(session, t) == t - session.created_at > SESSION_TTL

\* slip: the age of the session is not checked
GetSessionResultNoExpiry(auth, store, t) ==
    IF BearerToken(auth) = NoToken THEN "Unauthorized"
    ELSE IF BearerToken(auth) \notin DOMAIN store THEN "Unauthorized"
    ELSE "ok"

\* slip: an id that is not in the store is reported as an expired session
GetSessionResultUnknownExpired(auth, store, t) ==
    IF BearerToken(auth) = NoToken THEN "Unauthorized"
    ELSE IF BearerToken(auth) \notin DOMAIN store THEN "SessionExpired"
    ELSE IF SessionTooOld(store[BearerToken(auth)], t) THEN "SessionExpired"
    ELSE "ok"

\* get_session: the error, or "ok"
GetSessionResult(auth, store, t) ==
    IF BearerToken(auth) = NoToken THEN "Unauthorized"
    ELSE IF BearerToken(auth) \notin DOMAIN store THEN "Unauthorized"
    ELSE IF SessionTooOld(store[BearerToken(auth)], t) THEN "SessionExpired"
    ELSE "ok"

\* slip: a successful check renews the session (sliding expiry)
SessionsAfterGetRenew(store, token, t) ==
    [store EXCEPT ![token] = [did |-> store[token].did, created_at |-> t]]

\* get_session takes sessions.read() and clones: the store is left as it was
SessionsAfterGet(store, token, t) == store

\* Json<RegisterRequest>: did, endpoint and signature are required fields
JsonAccepts(body) == body.did # Absent /\ body.signature # Absent

\* #[serde(default = "default_ttl")]
TtlOf(body) == IF body.ttl = Omitted THEN DEFAULT_TTL ELSE body.ttl

\* the error response of get_session, with the token it was given
AuthFailure(op, auth, result) ==
    IF result = "SessionExpired"
    THEN [op |-> op, result |-> result, token |-> BearerToken(auth),
          checked_at |-> now]
    ELSE [op |-> op, result |-> result, token |-> BearerToken(auth)]

\* ------------------------------------------------------------ POST /register
RegisterAuth(r, auth, body) ==
    /\ FreeSlot(r)
    /\ budget > 0
    /\ budget' = budget - 1
    /\ IF ~JsonAccepts(body)
       THEN /\ resp' = [op |-> "register", result |-> "JsonRejection",
                        token |-> BearerToken(auth),
                        missing |-> {f \in {"did", "signature"} : body[f] = Absent}]
            /\ UNCHANGED <<req, sessions, expired_seen>>
       ELSE LET result == GetSessionResult(auth, sessions, now)
            IN IF result = "ok"
               THEN /\ req' = [req EXCEPT ![r] =
                                [pc |-> "register_store",
                                 token |-> BearerToken(auth),
                                 session |-> sessions[BearerToken(auth)],
                                 checked_at |-> now,
                                 body_did |-> body.did,
                                 endpoint |-> body.endpoint,
                                 ttl |-> TtlOf(body)]]
                    /\ sessions' = SessionsAfterGet(sessions, BearerToken(auth), now)
                    /\ UNCHANGED <<resp, expired_seen>>
               ELSE /\ resp' = AuthFailure("register", auth, result)
                    /\ expired_seen' = IF result = "SessionExpired"
                                       THEN expired_seen \cup {BearerToken(auth)}
                                       ELSE expired_seen
                    /\ UNCHANGED <<req, sessions>>
    /\ UNCHANGED <<now, ticks, pending_challenges, registry, next_nonce,
                   next_uuid, last_reg, taken, minted, mcp>>

\* let expires_at = now + req.ttl as i64, wrapping
ExpiresAt(t, ttl) == WrapI64(t + AsI64(ttl))

\* slip: the entry is keyed by the DID of the request body
RegisterEntryBodyDid(session, body_did, endpoint, t, expires_at) ==
    [did |-> body_did, endpoint |-> endpoint,
     registered_at |-> t, expires_at |-> expires_at]

\* RegistryEntry { did: session.did.clone(), endpoint: req.endpoint, .. }
RegisterEntry(session, body_did, endpoint, t, expires_at) ==
    [did |-> session.did, endpoint |-> endpoint,
     registered_at |-> t, expires_at |-> expires_at]

\* Registry::register: upsert keyed by entry.did
RegistryRegister(store, entry) == Insert(store, entry.did, entry)

\* Registry::lookup: the stored entry, verbatim
RegistryLookup(store, did) == store[did]

\* Registry::deregister: remove the entry
RegistryDeregister(store, did) == Remove(store, did)

\* slip: the handler registers only a DID that has no entry yet
StoreEntryIfAbsent(store, entry) ==
    IF entry.did \in DOMAIN store THEN store ELSE RegistryRegister(store, entry)

\* slip: a register for a DID that has an entry keeps its first registered_at
StoreEntryKeepFirst(store, entry) ==
    IF entry.did \in DOMAIN store
    THEN Insert(store, entry.did,
                [entry EXCEPT !.registered_at = store[entry.did].registered_at])
    ELSE RegistryRegister(store, entry)

\* state.registry.register(entry): called whatever the registry holds
StoreEntry(store, entry) == RegistryRegister(store, entry)

RegisterStore(r) ==
    /\ req[r].pc = "register_store"
    /\ LET expires_at == ExpiresAt(now, req[r].ttl)
           entry == RegisterEntry(req[r].session, req[r].body_did,
                                  req[r].endpoint, now, expires_at)
           stored ==
               /\ registry' = StoreEntry(registry, entry)
               /\ last_reg' = Insert(last_reg, entry.did,
                                     [ttl |-> req[r].ttl, endpoint |-> req[r].endpoint,
                                      at |-> now, returned |-> expires_at,
                                      replaced_expired |->
                                          {now > e.expires_at :
                                              e \in EntrySet(registry, entry.did)}])
               /\ resp' = [op |-> "register", result |-> "ok",
                           token |-> req[r].token, checked_at |-> req[r].checked_at,
                           did |-> req[r].session.did, expires_at |-> expires_at,
                           registered_at |-> now, ttl |-> req[r].ttl]
           panicked ==
               /\ resp' = [op |-> "register", result |-> "panic",
                           token |-> req[r].token, checked_at |-> req[r].checked_at]
               /\ UNCHANGED <<registry, last_reg>>
       IN IF Overflows(now + AsI64(req[r].ttl)) THEN stored \/ panicked ELSE stored
    /\ req' = [req EXCEPT ![r] = Idle]
    /\ UNCHANGED <<now, ticks, pending_challenges, sessions, next_nonce, next_uuid,
                   budget, taken, minted, expired_seen, mcp>>

\* ---------------------------------------------------------- POST /deregister
DeregisterAuth(r, auth) ==
    /\ FreeSlot(r)
    /\ budget > 0
    /\ budget' = budget - 1
    /\ LET result == GetSessionResult(auth, sessions, now)
       IN IF result = "ok"
          THEN /\ req' = [req EXCEPT ![r] =
                           [pc |-> "deregister_store",
                            token |-> BearerToken(auth),
                            session |-> sessions[BearerToken(auth)],
                            checked_at |-> now]]
               /\ sessions' = SessionsAfterGet(sessions, BearerToken(auth), now)
               /\ UNCHANGED <<resp, expired_seen>>
          ELSE /\ resp' = AuthFailure("deregister", auth, result)
               /\ expired_seen' = IF result = "SessionExpired"
                                  THEN expired_seen \cup {BearerToken(auth)}
                                  ELSE expired_seen
               /\ UNCHANGED <<req, sessions>>
    /\ UNCHANGED <<now, ticks, pending_challenges, registry, next_nonce,
                   next_uuid, last_reg, taken, minted, mcp>>

\* Registry::deregister returns whether the entry existed
RegistryExisted(store, did) == did \in DOMAIN store

\* slip: the response reports ok whatever Registry::deregister returned
DeregisterResponseAlwaysOk(existed) == TRUE

\* DeregisterResponse { ok: existed }
DeregisterResponse(existed) == existed

DeregisterStore(r) ==
    /\ req[r].pc = "deregister_store"
    /\ LET did == req[r].session.did
           existed == DeregisterResponse(RegistryExisted(registry, did))
       IN /\ registry' = RegistryDeregister(registry, did)
          /\ last_reg' = Remove(last_reg, did)
          /\ resp' = [op |-> "deregister", result |-> "ok",
                      token |-> req[r].token, checked_at |-> req[r].checked_at,
                      ok |-> existed]
    /\ req' = [req EXCEPT ![r] = Idle]
    /\ UNCHANGED <<now, ticks, pending_challenges, sessions, next_nonce, next_uuid,
                   budget, taken, minted, expired_seen, mcp>>

\* ---------------------------------------------------------- GET /lookup/:did
\* slip: an entry counts as expired from the second it expires at
StatusInclusive(entry, t) == IF t >= entry.expires_at THEN "expired" ELSE "online"

\* RegistryEntry::status
Status(entry, t) == IF t > entry.expires_at THEN "expired" ELSE "online"

LookupFetch(r, seg) ==
    /\ FreeSlot(r)
    /\ UNCHANGED budget
    /\ LET did == UrlDecode(seg)
       IN IF did = Absent
          THEN /\ resp' = [op |-> "lookup", result |-> "InvalidDid"]
               /\ UNCHANGED req
          ELSE IF did \notin DOMAIN registry
          THEN /\ resp' = [op |-> "lookup", result |-> "NotFound", did |-> did]
               /\ UNCHANGED req
          ELSE /\ req' = [req EXCEPT ![r] =
                           [pc |-> "lookup_status",
                            entry |-> RegistryLookup(registry, did)]]
               /\ UNCHANGED resp
    /\ UNCHANGED <<now, ticks, pending_challenges, sessions, registry, next_nonce,
                   next_uuid, last_reg, taken, minted, expired_seen, mcp>>

LookupStatus(r) ==
    /\ req[r].pc = "lookup_status"
    /\ LET entry == req[r].entry
           status == Status(entry, now)
       IN IF status = "expired"
          THEN resp' = [op |-> "lookup", result |-> "Expired",
                        did |-> entry.did, entry |-> entry, at |-> now]
          ELSE resp' = [op |-> "lookup", result |-> "ok",
                        did |-> entry.did, endpoint |-> entry.endpoint,
                        status |-> status, registered_at |-> entry.registered_at,
                        expires_at |-> entry.expires_at,
                        entry |-> entry, at |-> now]
    /\ req' = [req EXCEPT ![r] = Idle]
    /\ UNCHANGED <<now, ticks, pending_challenges, sessions, registry, next_nonce,
                   next_uuid, budget, last_reg, taken, minted, expired_seen, mcp>>

\* ------------------------------------------------ tool adapter (mcp/src/main.rs)
\* self.key.did() and the endpoint the adapter's caller registers
McpDid == DidA
McpEndpoint == "https://a.example/inbox"
McpTools == {"register", "deregister"}

\* Router::new().route(...): the handler of a method and path
Route(method, path) ==
    CASE path = "/hello" -> IF method = "POST" THEN "hello" ELSE "MethodNotAllowed"
      [] path = "/proof" -> IF method = "POST" THEN "proof" ELSE "MethodNotAllowed"
      [] path = "/register" ->
             IF method = "POST" THEN "register" ELSE "MethodNotAllowed"
      [] path = "/deregister" ->
             IF method = "POST" THEN "deregister" ELSE "MethodNotAllowed"
      [] OTHER -> "NotFound"

\* client.post("{}/hello").json(&hello); whether Verifier::handle_hello
\* (external crate) accepts the adapter's hello is either
HelloRequest(acceptable) ==
    [method |-> "POST", path |-> "/hello",
     hello |-> [did |-> McpDid, acceptable |-> acceptable]]

\* Prover::new(key).create_proof(&challenge), client.post("{}/proof")
ProofRequest(hash) ==
    [method |-> "POST", path |-> "/proof",
     proof |-> [challenge_hash |-> hash, responder_did |-> McpDid,
                signer |-> KeyOf(McpDid), signed_hash |-> hash]]

\* register_impl: client.post("{}/register"), body RegisterRequest { endpoint }
\* deregister_impl: client.delete("{}/deregister")
ToolRequest(tool, session_id) ==
    IF tool = "register"
    THEN [method |-> "POST", path |-> "/register",
          auth |-> [prefix |-> "Bearer ", rest |-> session_id],
          body |-> [did |-> Absent, signature |-> Absent,
                    endpoint |-> McpEndpoint, ttl |-> Omitted]]
    ELSE [method |-> "DELETE", path |-> "/deregister",
          auth |-> [prefix |-> "Bearer ", rest |-> session_id]]

\* resp.status().is_success()
IsSuccess(response) == response.op # "router" /\ response.result = "ok"

\* the adapter awaits a response; the request in mcp.out is served once
McpAwaits == mcp.pc # "idle" /\ resp.op = "none" /\ req[1] = Idle

\* reach_register / reach_deregister is called: authenticate returns the
\* cached session id if there is one, and sends Hello otherwise
McpStart(tool) ==
    /\ mcp.pc = "idle"
    /\ req[1] = Idle
    /\ budget > 0
    /\ IF mcp.session # NoToken
       THEN mcp' = [pc |-> "await_tool", tool |-> tool, session |-> mcp.session,
                    cached |-> TRUE, out |-> ToolRequest(tool, mcp.session),
                    outcome |-> "pending"]
       ELSE \E acceptable \in BOOLEAN :
              mcp' = [pc |-> "await_hello", tool |-> tool, session |-> NoToken,
                      cached |-> FALSE, out |-> HelloRequest(acceptable),
                      outcome |-> "pending"]
    /\ resp' = [op |-> "none"]
    /\ UNCHANGED <<now, ticks, pending_challenges, sessions, registry, next_nonce,
                   next_uuid, req, budget, last_reg, taken, minted, expired_seen>>

\* authenticate, after /hello answered: bail, or sign and send the Proof
McpOnChallenge ==
    /\ mcp.pc = "await_hello"
    /\ resp.op # "none"
    /\ IF IsSuccess(resp)
       THEN /\ mcp' = [mcp EXCEPT !.pc = "await_proof",
                                  !.out = ProofRequest(resp.hash)]
            /\ resp' = [op |-> "none"]
       ELSE /\ mcp' = McpIdle(mcp.session, "failed")
            /\ UNCHANGED resp
    /\ UNCHANGED <<now, ticks, pending_challenges, sessions, registry, next_nonce,
                   next_uuid, req, budget, last_reg, taken, minted, expired_seen>>

\* authenticate, after /proof answered: bail, or cache the session and send
\* the tool's request with it
McpOnAccepted ==
    /\ mcp.pc = "await_proof"
    /\ resp.op # "none"
    /\ IF IsSuccess(resp)
       THEN /\ mcp' = [mcp EXCEPT !.pc = "await_tool",
                                  !.session = resp.session_id,
                                  !.out = ToolRequest(mcp.tool, resp.session_id)]
            /\ resp' = [op |-> "none"]
       ELSE /\ mcp' = McpIdle(mcp.session, "failed")
            /\ UNCHANGED resp
    /\ UNCHANGED <<now, ticks, pending_challenges, sessions, registry, next_nonce,
                   next_uuid, req, budget, last_reg, taken, minted, expired_seen>>

\* the cached session after the tool's request was answered: only a
\* successful deregister clears it
SessionAfterTool(tool, session, success) ==
    IF tool = "deregister" /\ success THEN NoToken ELSE session

\* register_impl / deregister_impl, after the request was answered
McpOnToolResponse ==
    /\ mcp.pc = "await_tool"
    /\ resp.op # "none"
    /\ mcp' = McpIdle(SessionAfterTool(mcp.tool, mcp.session, IsSuccess(resp)),
                      IF IsSuccess(resp) THEN "ok" ELSE "failed")
    /\ UNCHANGED <<now, ticks, pending_challenges, sessions, registry, next_nonce,
                   next_uuid, req, resp, budget, last_reg, taken, minted,
                   expired_seen>>

\* the router answers a request that matches no route (405 / 404)
RouterReject(request) ==
    /\ budget > 0
    /\ budget' = budget - 1
    /\ resp' = [op |-> "router",
                result |-> Route(request.method, request.path)]
    /\ UNCHANGED <<now, ticks, pending_challenges, sessions, registry, next_nonce,
                   next_uuid, req, last_reg, taken, minted, expired_seen, mcp>>

\* ------------------------------------------------------------ specifications
NextHandshake(slots, hellos, proofs) ==
    \/ \E hello \in hellos : Hello(hello)
    \/ \E r \in slots, proof \in proofs : ProofTake(r, proof)
    \/ \E r \in slots : ProofFinish(r)

NextRegistry(slots, headers, bodies, segs) ==
    \/ \E r \in slots, auth \in headers, body \in bodies : RegisterAuth(r, auth, body)
    \/ \E r \in slots : RegisterStore(r)
    \/ \E r \in slots, auth \in headers : DeregisterAuth(r, auth)
    \/ \E r \in slots : DeregisterStore(r)
    \/ \E r \in slots, seg \in segs : LookupFetch(r, seg)
    \/ \E r \in slots : LookupStatus(r)

\* The whole service from its start with MaxReqs concurrent tasks: every
\* hello, proof, header and path; bodies with and without did and signature
\* and a small or omitted ttl.
SmallTtlBodies == {b \in Bodies : b.ttl \in {1, Omitted}}
OneEndpointBodies == {b \in SmallTtlBodies : b.endpoint = "https://a.example/inbox"}

Next ==
    \/ Tick
    \/ NextHandshake(Slots, Hellos, Proofs)
    \/ NextRegistry(Slots, Headers, OneEndpointBodies, PathSegs)

Spec == Init /\ [][Next]_vars

\* The service after DidA's agent has completed one handshake at time 0 (a
\* state Spec reaches by Hello and Proof).
FirstChallenge == HandleHello([did |-> DidA, acceptable |-> TRUE], 1)

AfterHandshake(requests) ==
    /\ now = 0
    /\ ticks = 0
    /\ pending_challenges = Empty
    /\ sessions = Insert(Empty, 1, NewSession([responder_did |-> DidA], 0))
    /\ registry = Empty
    /\ next_nonce = 2
    /\ next_uuid = 2
    /\ req = [r \in Slots |-> Idle]
    /\ resp = [op |-> "proof", result |-> "ok",
               hash |-> HashChallenge(FirstChallenge), session_id |-> 1]
    /\ budget = requests
    /\ last_reg = Empty
    /\ taken = [h \in Hashes |-> IF h = HashChallenge(FirstChallenge) THEN 1 ELSE 0]
    /\ minted = Insert(Empty, 1, [signer |-> KeyOf(DidA),
                                  signed_hash |-> HashChallenge(FirstChallenge),
                                  hash |-> HashChallenge(FirstChallenge)])
    /\ expired_seen = {}
    /\ mcp = McpIdle(NoToken, "none")

\* After the first handshake the service serves one request at a time from
\* callers that complete their handshakes and send full bodies.
SessionHellos == {h \in Hellos : h.acceptable /\ ParseDid(h.did)}
SessionProofs == {p \in Proofs : /\ ParseDid(p.responder_did)
                                  /\ p.signer = KeyOf(p.responder_did)
                                  /\ p.signed_hash = p.challenge_hash}
SessionHeaders == {h \in Headers : h.prefix = "Bearer " /\ h.rest > 0}
SessionBodies == {b \in SmallTtlBodies : JsonAccepts(b)}
SessionSegs == {seg \in PathSegs : UrlDecode(seg) # Absent}

InitSession == AfterHandshake(MaxOpsSession)

NextSession ==
    \/ Tick
    \/ NextHandshake({1}, SessionHellos, SessionProofs)
    \/ NextRegistry({1}, SessionHeaders, SessionBodies, SessionSegs)

SpecSession == InitSession /\ [][NextSession]_vars

\* After the first handshake the registration endpoints are called, one
\* request at a time, with every body the request type admits (every ttl).
InitTtl == AfterHandshake(MaxOpsTtl)

NextTtl ==
    \/ Tick
    \/ NextRegistry({1}, Headers, Bodies, SessionSegs)

SpecTtl == InitTtl /\ [][NextTtl]_vars

\* After the first handshake MaxReqs tasks serve register, deregister and
\* lookup requests for the DID of that session concurrently.
ConcurrentHeaders == {h \in SessionHeaders : h.rest = 1}
ConcurrentSegs == {seg \in PathSegs : UrlDecode(seg) = DidA}
ConcurrentBodies == {b \in SessionBodies : b.ttl = 1}

InitConcurrent == AfterHandshake(MaxOpsConcurrent)

NextConcurrent ==
    \/ Tick
    \/ NextRegistry(Slots, ConcurrentHeaders, ConcurrentBodies, ConcurrentSegs)

SpecConcurrent == InitConcurrent /\ [][NextConcurrent]_vars

\* The service from its start with the tool adapter as a client, one task:
\* the adapter's calls are served one request at a time, and while the
\* adapter is idle other clients register and deregister with full bodies.
McpRequests(handler) ==
    IF McpAwaits /\ Route(mcp.out.method, mcp.out.path) = handler
    THEN {mcp.out} ELSE {}
McpRejected ==
    IF McpAwaits /\ Route(mcp.out.method, mcp.out.path)
                       \in {"MethodNotAllowed", "NotFound"}
    THEN {mcp.out} ELSE {}
DirectRegisters ==
    IF mcp.pc = "idle"
    THEN [method : {"POST"}, path : {"/register"}, auth : SessionHeaders,
          body : {b \in OneEndpointBodies : JsonAccepts(b) /\ b.ttl = Omitted}]
    ELSE {}
DirectDeregisters ==
    IF mcp.pc = "idle"
    THEN [method : {"POST"}, path : {"/deregister"}, auth : SessionHeaders]
    ELSE {}

RegisterRequests == McpRequests("register") \cup DirectRegisters
DeregisterRequests == McpRequests("deregister") \cup DirectDeregisters

InitMcp ==
    /\ now = 0
    /\ ticks = 0
    /\ pending_challenges = Empty
    /\ sessions = Empty
    /\ registry = Empty
    /\ next_nonce = 1
    /\ next_uuid = 1
    /\ req = [r \in Slots |-> Idle]
    /\ resp = [op |-> "none"]
    /\ budget = MaxOpsMcp
    /\ last_reg = Empty
    /\ taken = [h \in Hashes |-> 0]
    /\ minted = Empty
    /\ expired_seen = {}
    /\ mcp = McpIdle(NoToken, "none")

NextMcp ==
    \/ Tick
    \/ \E tool \in McpTools : McpStart(tool)
    \/ McpOnChallenge
    \/ McpOnAccepted
    \/ McpOnToolResponse
    \/ \E q \in McpRequests("hello") : Hello(q.hello)
    \/ \E q \in McpRequests("proof") : ProofTake(1, q.proof)
    \/ ProofFinish(1)
    \/ \E q \in RegisterRequests : RegisterAuth(1, q.auth, q.body)
    \/ RegisterStore(1)
    \/ \E q \in DeregisterRequests : DeregisterAuth(1, q.auth)
    \/ DeregisterStore(1)
    \/ \E q \in McpRejected : RouterReject(q)

SpecMcp == InitMcp /\ [][NextMcp]_vars

\* ------------------------------------------------------------------ claims
StoreSteps == {"register_store", "deregister_store"}
Finishes(r, pc) == req[r].pc = pc /\ req'[r] = Idle
Starts(r, pc) == req[r] = Idle /\ req'[r].pc = pc

C2_ChallengeSingleUse ==
    /\ \A h \in Hashes :
          /\ taken[h] <= 1
          /\ Cardinality({s \in DOMAIN minted : minted[s].hash = h}) <= 1
    /\ (resp.op = "proof" /\ resp.result = "InvalidChallenge")
          => resp.hash \notin DOMAIN pending_challenges

C2_Witness ==
    /\ resp.op = "proof" /\ resp.result = "InvalidChallenge"
    /\ taken[resp.hash] = 1
    /\ \E r \in Slots : /\ req[r].pc = "proof_verify"
                        /\ HashChallenge(req[r].challenge) = resp.hash

\* C3: a Proof that found its challenge and names a parseable DID, but whose
\* signature is not by that DID's key over the challenge, is answered
\* InvalidSignature, and neither of its two steps changes the session store.
C3_TamperedProofRejected ==
    [][\A r \in Slots :
         /\ Starts(r, "proof_verify") => sessions' = sessions
         /\ ( /\ Finishes(r, "proof_verify")
              /\ ParseDid(req[r].proof.responder_did)
              /\ \/ req[r].proof.signer # KeyOf(req[r].proof.responder_did)
                 \/ req[r].proof.signed_hash # HashChallenge(req[r].challenge) )
            => /\ resp'.op = "proof" /\ resp'.result = "InvalidSignature"
               /\ sessions' = sessions /\ minted' = minted]_vars

C3_Witness ==
    /\ resp.op = "proof" /\ resp.result = "InvalidSignature"
    /\ resp.hash \notin DOMAIN pending_challenges
    /\ taken[resp.hash] = 1

\* C4: register and deregister called with session id S succeed when S was
\* at most 300 seconds old at the check and fail with SessionExpired when it
\* was older, and S is still in the session store afterwards.
C4_ValidSessionSucceeds ==
    ( /\ resp.op \in {"register", "deregister"}
      /\ resp.result \in {"ok", "panic", "SessionExpired"} )
    => /\ resp.token \in DOMAIN sessions
       /\ (resp.checked_at - sessions[resp.token].created_at <= SESSION_TTL)
             => resp.result = "ok"
       /\ (resp.checked_at - sessions[resp.token].created_at > SESSION_TTL)
             => resp.result = "SessionExpired"

\* C5: no step changes or removes an existing session; once a register or
\* deregister with session id S was answered SessionExpired, no later
\* register or deregister with S passes get_session, and each is answered
\* SessionExpired, so that write access needs another session id.
C5_SessionNeverRenewed ==
    /\ [][\A s \in DOMAIN sessions :
            s \in DOMAIN sessions' /\ sessions'[s] = sessions[s]]_vars
    /\ [][\A s \in expired_seen :
            /\ \A r \in Slots :
                  (req[r] = Idle /\ req'[r].pc \in StoreSteps)
                     => req'[r].token # s
            /\ ( /\ budget' < budget
                 /\ resp'.op \in {"register", "deregister"}
                 /\ resp'.result \in {"Unauthorized", "SessionExpired"}
                 /\ resp'.token = s )
               => resp'.result = "SessionExpired"]_vars

C5_Witness ==
    \E s \in expired_seen, r \in Slots :
       /\ resp.op = "hello" \/ resp.op = "proof"
       /\ req[r].pc = "register_store"
       /\ req[r].token \notin expired_seen
       /\ req[r].session.did = sessions[s].did
       /\ req[r].session.created_at > sessions[s].created_at + SESSION_TTL

\* C6: the store step of a successful register writes the entry keyed by the
\* DID of the presented session, with that DID in it, whatever DID the body
\* supplies; the store step of a deregister removes that DID's entry; both
\* leave every other DID's entry, the challenge store and the session store
\* unchanged.
OthersUnchanged(d) ==
    /\ \A e \in (DOMAIN registry \cup DOMAIN registry') \ {d} :
          EntrySet(registry', e) = EntrySet(registry, e)
    /\ pending_challenges' = pending_challenges
    /\ sessions' = sessions

C6_ActsOnSessionDid ==
    /\ [](\A r \in Slots : req[r].pc \in StoreSteps =>
             /\ req[r].token \in DOMAIN sessions
             /\ req[r].session.did = sessions[req[r].token].did)
    /\ [][\A r \in Slots :
            /\ (Finishes(r, "register_store") /\ resp'.result = "ok")
                 => /\ req[r].session.did \in DOMAIN registry'
                    /\ registry'[req[r].session.did].did = req[r].session.did
                    /\ registry'[req[r].session.did].endpoint = req[r].endpoint
                    /\ resp'.did = req[r].session.did
                    /\ OthersUnchanged(req[r].session.did)
            /\ Finishes(r, "deregister_store")
                 => /\ req[r].session.did \notin DOMAIN registry'
                    /\ OthersUnchanged(req[r].session.did)]_vars

C6_Witness ==
    /\ resp.op = "register" /\ resp.result = "ok" /\ resp.did = DidA
    /\ DidA \in DOMAIN registry /\ registry[DidA].did = DidA
    /\ DidB \in DOMAIN registry /\ registry[DidB].did = DidB
    /\ registry[DidB].registered_at < registry[DidA].registered_at

\* C7: a register request with a valid Bearer session and a body that holds
\* neither did nor signature is accepted (it is never rejected).
C7_BareBodyAccepted ==
    ~ ( /\ resp.op = "register" /\ resp.result = "JsonRejection"
        /\ resp.missing = {"did", "signature"}
        /\ resp.token \in DOMAIN sessions
        /\ ~SessionTooOld(sessions[resp.token], now) )

\* C8: for every ttl of the request type, register returns
\* expires_at = registered_at + ttl, and a lookup at the clock value of the
\* register that wrote the entry returns online, the registered endpoint and
\* that expires_at.
C8_RegisterThenLookup ==
    /\ (resp.op = "register" /\ resp.result = "ok")
          => resp.expires_at = resp.registered_at + resp.ttl
    /\ ( /\ resp.op = "lookup" /\ resp.result \in {"ok", "Expired"}
         /\ resp.did \in DOMAIN last_reg
         /\ last_reg[resp.did].at = resp.entry.registered_at
         /\ last_reg[resp.did].returned = resp.entry.expires_at
         /\ resp.at = resp.entry.registered_at )
       => /\ resp.result = "ok"
          /\ resp.status = "online"
          /\ resp.endpoint = last_reg[resp.did].endpoint
          /\ resp.expires_at = resp.registered_at + last_reg[resp.did].ttl

\* C9: every entry held in the registry has expires_at > registered_at.
C9_ExpiresAfterRegistered ==
    \A d \in DOMAIN registry : registry[d].expires_at > registry[d].registered_at

\* C10: a lookup that fetched an entry succeeds exactly when the clock read
\* by status() is <= the entry's expires_at and fails with Expired when it is
\* greater; neither step of a lookup changes the registry, and an entry
\* changes or leaves the registry only in the store step of a register or
\* deregister for its DID.
C10_LazyExpiry ==
    /\ []((resp.op = "lookup" /\ resp.result \in {"ok", "Expired"})
            => /\ (resp.result = "ok") <=> (resp.at <= resp.entry.expires_at)
               /\ resp.result = "ok" => resp.status = "online")
    /\ [][\A r \in Slots :
            (Starts(r, "lookup_status") \/ Finishes(r, "lookup_status")
               \/ (resp' # resp /\ resp'.op = "lookup"))
              => registry' = registry]_vars
    /\ [][\A d \in DOMAIN registry :
            EntrySet(registry', d) # EntrySet(registry, d)
              => \E r \in Slots : /\ req[r].pc \in StoreSteps /\ req'[r] = Idle
                                  /\ req[r].session.did = d]_vars

C10_Witness ==
    /\ resp.op = "lookup" /\ resp.result = "Expired"
    /\ resp.did \in DOMAIN registry
    /\ registry[resp.did] = resp.entry
    /\ now > registry[resp.did].expires_at
    /\ registry[resp.did].expires_at > registry[resp.did].registered_at

\* C11: the store step of a deregister answers ok = TRUE exactly when the
\* session's DID had an entry, never with an error, and leaves no entry for
\* that DID; when there was none the registry is unchanged; a lookup of that
\* DID made while the deregister is the last response finds no entry, and a
\* deregister for that DID finishing right after a deregister answers
\* ok = FALSE.
C11_DeregisterIdempotent ==
    [][\A r \in Slots :
         LET lastDereg == /\ resp.op = "deregister" /\ resp.result = "ok"
                          /\ resp.token \in DOMAIN sessions
         IN /\ Finishes(r, "deregister_store") =>
                 LET d == req[r].session.did
                 IN /\ resp'.op = "deregister" /\ resp'.result = "ok"
                    /\ resp'.ok = (d \in DOMAIN registry)
                    /\ d \notin DOMAIN registry'
                    /\ d \notin DOMAIN registry => registry' = registry
                    /\ (lastDereg /\ sessions[resp.token].did = d)
                          => resp'.ok = FALSE
            /\ (lastDereg /\ Starts(r, "lookup_status"))
                 => req'[r].entry.did # sessions[resp.token].did
            /\ ( /\ lastDereg /\ resp' # resp /\ resp'.op = "lookup"
                 /\ resp'.result # "InvalidDid"
                 /\ resp'.did = sessions[resp.token].did )
                 => resp'.result = "NotFound"]_vars

\* a deregister removed an entry and a second one for the same DID has
\* passed get_session
C11_Witness ==
    /\ resp.op = "deregister" /\ resp.result = "ok" /\ resp.ok = TRUE
    /\ sessions[resp.token].did \notin DOMAIN registry
    /\ \E r \in Slots : /\ req[r].pc = "deregister_store"
                        /\ req[r].session.did = sessions[resp.token].did

\* C12: every stored entry is stored under its own DID (one entry per DID),
\* and the store step of a successful register leaves, for the session's
\* DID, exactly the entry with that request's endpoint, the clock value it
\* read and the expires_at it returns, whatever entry was there before,
\* expired or not; no other DID gains or loses an entry.
C12_RegisterUpserts ==
    /\ [](\A d \in DOMAIN registry : registry[d].did = d)
    /\ [][\A r \in Slots :
            (Finishes(r, "register_store") /\ resp'.result = "ok") =>
               LET d == req[r].session.did
               IN /\ DOMAIN registry' = DOMAIN registry \cup {d}
                  /\ registry'[d] = [did |-> d, endpoint |-> req[r].endpoint,
                                     registered_at |-> now,
                                     expires_at |-> resp'.expires_at]
                  /\ resp'.expires_at = ExpiresAt(now, req[r].ttl)]_vars

\* a second register replaced an entry that had expired
C12_Witness ==
    /\ resp.op = "register" /\ resp.result = "ok"
    /\ resp.did \in DOMAIN registry /\ resp.did \in DOMAIN last_reg
    /\ registry[resp.did].registered_at = resp.registered_at
    /\ registry[resp.did].endpoint = last_reg[resp.did].endpoint
    /\ last_reg[resp.did].replaced_expired = {TRUE}

\* C13: a register or deregister answered Unauthorized or SessionExpired
\* leaves the registry, the session store and the challenge store as they
\* were and starts no store step; Unauthorized is answered only when the
\* header carries no Bearer id or an id that is not in the session store,
\* SessionExpired only for an id that is in the store and older than 300
\* seconds; a request passes get_session only with an id that is in the store.
AuthRefused ==
    /\ budget' < budget /\ req' = req
    /\ resp'.op \in {"register", "deregister"}
    /\ resp'.result \in {"Unauthorized", "SessionExpired"}

C13_AuthFailureNoEffect ==
    /\ [][AuthRefused =>
            /\ registry' = registry
            /\ sessions' = sessions
            /\ pending_challenges' = pending_challenges
            /\ resp'.result = "Unauthorized"
                  => resp'.token \notin DOMAIN sessions
            /\ resp'.result = "SessionExpired"
                  => /\ resp'.token \in DOMAIN sessions
                     /\ now - sessions[resp'.token].created_at > SESSION_TTL]_vars
    /\ [][\A r \in Slots :
            (req[r] = Idle /\ req'[r].pc \in StoreSteps)
               => /\ req'[r].token \in DOMAIN sessions
                  /\ now - sessions[req'[r].token].created_at <= SESSION_TTL
                  /\ registry' = registry /\ sessions' = sessions
                  /\ pending_challenges' = pending_challenges]_vars

\* a Bearer id that is not in the store was answered Unauthorized while the
\* store holds a session
C13_Witness ==
    /\ resp.op \in {"register", "deregister"} /\ resp.result = "Unauthorized"
    /\ resp.token \in Tokens /\ resp.token \notin DOMAIN sessions
    /\ DOMAIN sessions # {}

\* C14: a Proof that found its challenge and then fails leaves the challenge
\* store without that challenge; a challenge hash that was found once is
\* never pending again, so no later Proof naming it finds a challenge and
\* each is answered InvalidChallenge.
C14_FailedProofConsumes ==
    /\ [](\A h \in Hashes : taken[h] >= 1 => h \notin DOMAIN pending_challenges)
    /\ [][\A r \in Slots :
            /\ (Finishes(r, "proof_verify") /\ resp'.result # "ok")
                 => /\ pending_challenges' = pending_challenges
                    /\ HashChallenge(req[r].challenge)
                           \notin DOMAIN pending_challenges'
            /\ Starts(r, "proof_verify")
                 => taken[req'[r].proof.challenge_hash] = 0
            /\ ( /\ budget' < budget /\ req' = req /\ resp'.op = "proof"
                 /\ taken[resp'.hash] >= 1 )
                 => resp'.result = "InvalidChallenge"]_vars

\* a Proof found a challenge and failed, and a later Proof naming the same
\* hash was answered InvalidChallenge
C14_Witness ==
    /\ resp.op = "proof" /\ resp.result = "InvalidChallenge"
    /\ taken[resp.hash] = 1
    /\ \A s \in DOMAIN minted : minted[s].hash # resp.hash
    /\ \A r \in Slots : req[r] = Idle

\* C15: every Proof request is answered with success, InvalidChallenge or
\* InvalidSignature, and with no other error kind.
C15_ProofErrorKinds ==
    resp.op = "proof"
       => resp.result \in {"ok", "InvalidChallenge", "InvalidSignature"}

\* C16: a Hello whose DID does not parse is answered InvalidDid and changes
\* neither the challenge store, the session store nor the registry; a Hello
\* whose DID parses is never answered InvalidDid.
HelloAnswered == budget' < budget /\ req' = req /\ resp'.op = "hello"

C16_BadDidHelloNoState ==
    [][HelloAnswered =>
         /\ ~ParseDid(resp'.did)
               => /\ resp'.result = "InvalidDid"
                  /\ pending_challenges' = pending_challenges
                  /\ sessions' = sessions
                  /\ registry' = registry
         /\ ParseDid(resp'.did) => resp'.result # "InvalidDid"]_vars

\* a Hello with an unparseable DID was refused while a challenge is pending
C16_Witness ==
    /\ resp.op = "hello" /\ resp.result = "InvalidDid" /\ ~ParseDid(resp.did)
    /\ DOMAIN pending_challenges # {}

\* C17: a successful Hello adds one challenge under a hash that was not
\* pending, issued to the hello's DID, and leaves every pending challenge in
\* place and unchanged; a Proof that finds its challenge removes that
\* challenge only, so the other pending challenges stay available.
C17_HelloIndependent ==
    [][/\ (HelloAnswered /\ resp'.result = "ok")
            => /\ resp'.hash \notin DOMAIN pending_challenges
               /\ DOMAIN pending_challenges' =
                      DOMAIN pending_challenges \cup {resp'.hash}
               /\ \A h \in DOMAIN pending_challenges :
                      pending_challenges'[h] = pending_challenges[h]
               /\ pending_challenges'[resp'.hash].issuer = resp'.did
               /\ HashChallenge(pending_challenges'[resp'.hash]) = resp'.hash
       /\ \A r \in Slots :
             Starts(r, "proof_verify")
               => /\ req'[r].proof.challenge_hash \in DOMAIN pending_challenges
                  /\ req'[r].challenge =
                         pending_challenges[req'[r].proof.challenge_hash]
                  /\ pending_challenges' =
                         Remove(pending_challenges, req'[r].proof.challenge_hash)]_vars

\* two Hellos for one DID left two challenges pending; a Proof consumed the
\* later one into a session and the earlier one is still pending
C17_Witness ==
    \E s \in DOMAIN minted, h \in DOMAIN pending_challenges :
       /\ s \in DOMAIN sessions
       /\ pending_challenges[h].issuer = sessions[s].did
       /\ \E n \in Nonces :
             /\ minted[s].hash = HashChallenge([nonce |-> n, issuer |-> sessions[s].did])
             /\ pending_challenges[h].nonce < n

\* C18: once a deregister made with session id S has removed the entry of
\* its DID, a register or deregister presenting S does not succeed: the next
\* request that completes with S after that deregister is not answered ok.
C18_DeregisterInvalidatesSession ==
    [][\A r \in Slots :
         ( /\ resp.op = "deregister" /\ resp.result = "ok" /\ resp.ok = TRUE
           /\ req[r].pc \in StoreSteps /\ req'[r] = Idle
           /\ req[r].token = resp.token )
         => resp'.result # "ok"]_vars

\* C19: the DID of every session is the DID to which the challenge consumed
\* by its Proof was issued.  (The handler binds the session to the responder
\* DID whose key signed the consumed challenge; that this DID is the
\* challenge's issuer is left to verify_proof, see VerifyProof.)
C19_SessionDidIsIssuer ==
    \A s \in DOMAIN sessions :
       \E n \in Nonces :
          minted[s].hash = HashChallenge([nonce |-> n, issuer |-> sessions[s].did])

\* C20: with register, deregister and lookup requests for one DID in flight
\* together, the registry changes only in store steps, one request at a
\* time, each step leaving what that request alone leaves on the store as it
\* finds it, so that the registry always holds what the latest store step
\* wrote; a lookup fetches the entry the registry holds at that moment, and
\* one that starts while a register's success is the last response fetches
\* the entry of that register.
EntryOf(d, w) == [did |-> d, endpoint |-> w.endpoint,
                  registered_at |-> w.at, expires_at |-> w.returned]

C20_StoreLinearizable ==
    /\ [](/\ DOMAIN registry = DOMAIN last_reg
          /\ \A d \in DOMAIN registry : registry[d] = EntryOf(d, last_reg[d]))
    /\ [][/\ registry' # registry
             => Cardinality({r \in Slots : req[r].pc \in StoreSteps
                                           /\ req'[r] = Idle}) = 1
          /\ \A r \in Slots :
                /\ (Finishes(r, "register_store") /\ resp'.result = "ok")
                     => registry' = RegistryRegister(registry,
                                       [did |-> req[r].session.did,
                                        endpoint |-> req[r].endpoint,
                                        registered_at |-> now,
                                        expires_at |-> resp'.expires_at])
                /\ Finishes(r, "deregister_store")
                     => registry' = RegistryDeregister(registry, req[r].session.did)
                /\ Starts(r, "lookup_status")
                     => /\ req'[r].entry.did \in DOMAIN registry
                        /\ req'[r].entry = registry[req'[r].entry.did]
                        /\ (resp.op = "register" /\ resp.result = "ok"
                               /\ resp.did = req'[r].entry.did)
                             => /\ req'[r].entry.registered_at = resp.registered_at
                                /\ req'[r].entry.expires_at = resp.expires_at
                /\ ( /\ resp' # resp /\ resp'.op = "lookup"
                     /\ resp'.result = "NotFound" )
                     => /\ resp'.did \notin DOMAIN registry
                        /\ ~(resp.op = "register" /\ resp.result = "ok"
                               /\ resp.did = resp'.did)]_vars

\* a lookup fetched an entry, and a register that overlapped it has since
\* replaced that entry and returned
C20_Witness ==
    \E r \in Slots :
       /\ req[r].pc = "lookup_status"
       /\ req[r].entry.did \in DOMAIN registry
       /\ req[r].entry.endpoint # registry[req[r].entry.did].endpoint
       /\ resp.op = "register" /\ resp.result = "ok"
       /\ resp.did = req[r].entry.did
       /\ resp.registered_at = registry[resp.did].registered_at

\* C21: when a tool call of the adapter uses the cached session id without a
\* new handshake, that session is in the registry's session store and at
\* most 300 seconds old.
C21_CachedSessionValid ==
    [][(mcp.pc = "idle" /\ mcp'.pc = "await_tool")
         => /\ mcp.session \in DOMAIN sessions
            /\ ~SessionTooOld(sessions[mcp.session], now)]_vars

\* C22: a reach_deregister call that returns while the adapter's session is
\* valid at the registry has succeeded, has left no entry for the adapter's
\* DID and has cleared the cached session.
C22_McpDeregisterReaches ==
    [][( /\ mcp.pc = "await_tool" /\ mcp.tool = "deregister"
         /\ mcp'.pc = "idle"
         /\ mcp.session \in DOMAIN sessions
         /\ ~SessionTooOld(sessions[mcp.session], now) )
       => /\ mcp'.outcome = "ok"
          /\ McpDid \notin DOMAIN registry'
          /\ mcp'.session = NoToken]_vars

====
